---------------------------- MODULE Spec2Model ----------------------------
(***************************************************************************)
(* rust_scaper: stock monitors for two web shops (src/main.rs).            *)
(*                                                                         *)
(* A monitor (StrandbergGuitarsCom, ThomannDe) holds stock_status, name    *)
(* and url.  update() fetches the product page, selects exactly one name   *)
(* element and exactly one availability element and classifies the text;   *)
(* main() updates every product in order and prints its status.            *)
(*                                                                         *)
(* Strings that the code only stores, compares as a whole or pastes with   *)
(* format! are TLA+ strings.  The availability text is inspected character *)
(* by character (to_lowercase, trim), so it is a sequence of one-character *)
(* strings.  What reqwest and scraper do is the environment: a transport   *)
(* outcome, and for a page the elements each selector matches together     *)
(* with the inner_html() of each.                                          *)
(***************************************************************************)
EXTENDS Naturals, Sequences, FiniteSets, TLC

VARIABLES
    products,   \* main's Vec<Box<dyn Stock>>: the monitors
    last,       \* the last trait call made on a monitor, and what it returned
    output,     \* the lines printed to stdout by main
    calls,      \* the trait calls main has made, in order
    next        \* position of main's iterator over products (0: main not run)

vars == <<products, last, output, calls, next>>

----------------------------------------------------------------------------
(* Bounds of the model *)

\* most elements a selector matches on a served page
MaxMatches == 2

----------------------------------------------------------------------------
(* Result<T, E> and Option<T> *)

Ok(v) == [ok |-> TRUE, v |-> v]
Err(e) == [ok |-> FALSE, e |-> e]

None == [some |-> FALSE]
Some(v) == [some |-> TRUE, v |-> v]

----------------------------------------------------------------------------
(* enum StockStatus and its ToString *)

StockStatus == {"Unknown", "InStock", "OutOfStock"}

to_string(status) ==
    CASE status = "Unknown" -> "unknown"
      [] status = "InStock" -> "in stock"
      [] status = "OutOfStock" -> "out of stock"

----------------------------------------------------------------------------
(* str::to_lowercase and str::trim on sequences of characters *)

UpperLetters ==
    <<"A","B","C","D","E","F","G","H","I","J","K","L","M","N","O","P","Q",
      "R","S","T","U","V","W","X","Y","Z","Å">>
LowerLetters ==
    <<"a","b","c","d","e","f","g","h","i","j","k","l","m","n","o","p","q",
      "r","s","t","u","v","w","x","y","z","å">>

WhiteSpace == {" ", "\t", "\n"}

\* the lowercase mapping of the letters that occur
Lowercase ==
    [c \in {UpperLetters[k] : k \in 1..Len(UpperLetters)} |->
        LowerLetters[CHOOSE k \in 1..Len(UpperLetters) : UpperLetters[k] = c]]

to_lowercase_char(c) == IF c \in DOMAIN Lowercase THEN Lowercase[c] ELSE c

to_lowercase(s) == [k \in 1..Len(s) |-> to_lowercase_char(s[k])]

trim(s) ==
    LET solid == {k \in 1..Len(s) : s[k] \notin WhiteSpace}
    IN  IF solid = {} THEN <<>>
        ELSE LET first == CHOOSE k \in solid : \A j \in solid : k <= j
                 lst == CHOOSE k \in solid : \A j \in solid : j <= k
             IN  SubSeq(s, first, lst)

----------------------------------------------------------------------------
(* The phrases of the two match tables, as character sequences *)

\* "out of stock"
P_out_of_stock ==
    <<"o","u","t"," ","o","f"," ","s","t","o","c","k">>
\* "in stock"
P_in_stock ==
    <<"i","n"," ","s","t","o","c","k">>
\* "only 1 in stock"
P_only_1_in_stock ==
    <<"o","n","l","y"," ","1"," ","i","n"," ","s","t","o","c","k">>
\* "only 2 in stock"
P_only_2_in_stock ==
    <<"o","n","l","y"," ","2"," ","i","n"," ","s","t","o","c","k">>
\* "ikke på lager"
P_ikke_paa_lager ==
    <<"i","k","k","e"," ","p","å"," ","l","a","g","e","r">>
\* "på lager indenfor 3-4 uger"
P_paa_lager_3_4_uger ==
    <<"p","å"," ","l","a","g","e","r"," ","i","n","d","e","n","f","o","r",
      " ","3","-","4"," ","u","g","e","r">>
\* "på lager indenfor 1-2 uger"
P_paa_lager_1_2_uger ==
    <<"p","å"," ","l","a","g","e","r"," ","i","n","d","e","n","f","o","r",
      " ","1","-","2"," ","u","g","e","r">>
\* "på lager"
P_paa_lager ==
    <<"p","å"," ","l","a","g","e","r">>

\* Variant: text that is not "out of stock" counts as in stock.
StrandbergGuitarsCom_match_loose(inner_html) ==
    LET key == trim(to_lowercase(inner_html))
    IN  IF key = P_out_of_stock THEN "OutOfStock" ELSE "InStock"

(* The match of StrandbergGuitarsCom::update on the availability text *)
StrandbergGuitarsCom_match(inner_html) ==
    LET key == trim(to_lowercase(inner_html))
    IN  CASE key = P_out_of_stock -> "OutOfStock"
          [] key \in {P_in_stock, P_only_1_in_stock, P_only_2_in_stock} -> "InStock"
          [] OTHER -> "Unknown"

(* The match of ThomannDe::update on the availability text *)
ThomannDe_match(inner_html) ==
    LET key == trim(to_lowercase(inner_html))
    IN  CASE key \in {P_ikke_paa_lager, P_paa_lager_3_4_uger, P_paa_lager_1_2_uger}
               -> "OutOfStock"
          [] key = P_paa_lager -> "InStock"
          [] OTHER -> "Unknown"

----------------------------------------------------------------------------
(* The two monitor types *)

Sites == {"StrandbergGuitarsCom", "ThomannDe"}

name_selector(site) ==
    IF site = "StrandbergGuitarsCom" THEN "div.product-info-wrapper>h1"
    ELSE "div.product-title>h1"

stock_selector(site) ==
    IF site = "StrandbergGuitarsCom" THEN "div.woocommerce-variation-availability>p"
    ELSE "div.price-and-availability__tooltip-wrapper>span"

\* StrandbergGuitarsCom::new, ThomannDe::new
new(site, url) ==
    [site |-> site, stock_status |-> "Unknown", name |-> None, url |-> url]

----------------------------------------------------------------------------
(* What scraper and reqwest give *)

\* scraper::Selector::parse: Ok for a well-formed selector
Selector_parse(css) ==
    IF css \in {name_selector(s) : s \in Sites} \cup {stock_selector(s) : s \in Sites}
    THEN Ok(css)
    ELSE Err([kind |-> "SelectorErrorKind", css |-> css])

\* document.select(&selector).collect(): the elements the selector matches,
\* in document order
select(document, selector) ==
    IF selector \in DOMAIN document THEN document[selector] ELSE <<>>

\* reqwest::blocking::get(&self.url)?: an error when no response arrives;
\* a response of any status code is Ok
reqwest_get(resp) ==
    IF resp.kind = "ConnectError"
    THEN Err([kind |-> "reqwest::Error", detail |-> "request"])
    ELSE Ok(resp)

\* Response::text()?: an error when the body cannot be read
response_text(response) ==
    IF response.kind = "BodyError"
    THEN Err([kind |-> "reqwest::Error", detail |-> "body"])
    ELSE Ok(response.body)

\* scraper::Html::parse_document never fails; the body is given as the tree
parse_document(text) == text

----------------------------------------------------------------------------
(* get_single_element *)

SimpleError_new(message) == [kind |-> "SimpleError", message |-> message]

\* Variant: the first match is taken when there are several.
get_single_element_first(document, selector) ==
    LET elements == select(document, selector)
    IN  IF Len(elements) = 0
        THEN Err(SimpleError_new(
                 <<"Found ", Len(elements), " selection(s) for ", selector>>))
        ELSE Ok(elements[1])

get_single_element(document, selector) ==
    LET elements == select(document, selector)
    IN  IF Len(elements) # 1
        THEN Err(SimpleError_new(
                 <<"Found ", Len(elements), " selection(s) for ", selector>>))
        ELSE Ok(elements[1])

----------------------------------------------------------------------------
(* impl Stock: update, is_in_stock, get_status *)

\* the match of the monitor's own type
match_stock(site, inner_html) ==
    IF site = "StrandbergGuitarsCom"
    THEN StrandbergGuitarsCom_match(inner_html)
    ELSE ThomannDe_match(inner_html)

\* Variant: the status is not reset.
reset_skipped(self) == self

\* self.stock_status = StockStatus::Unknown, the first statement of update
reset(self) == [self EXCEPT !.stock_status = "Unknown"]

\* Variant: the name is assigned as soon as its element is selected.
select_and_store_eager(self, document, name_sel, stock_sel) ==
    LET name_element == get_single_element(document, name_sel)
    IN  IF ~name_element.ok
        THEN [self |-> self, result |-> Err(name_element.e)]
        ELSE
    LET named == [self EXCEPT !.name = Some(name_element.v.inner_html)]
        stock_element == get_single_element(document, stock_sel)
    IN  IF ~stock_element.ok
        THEN [self |-> named, result |-> Err(stock_element.e)]
        ELSE [self |-> [named EXCEPT
                           !.stock_status =
                               match_stock(self.site, stock_element.v.inner_html)],
              result |-> Ok(<<>>)]

\* Variant: the name text is assigned to url.
select_and_store_url(self, document, name_sel, stock_sel) ==
    LET name_element == get_single_element(document, name_sel)
    IN  IF ~name_element.ok
        THEN [self |-> self, result |-> Err(name_element.e)]
        ELSE
    LET stock_element == get_single_element(document, stock_sel)
    IN  IF ~stock_element.ok
        THEN [self |-> self, result |-> Err(stock_element.e)]
        ELSE [self |-> [self EXCEPT
                           !.name = Some(name_element.v.inner_html),
                           !.url = name_element.v.inner_html,
                           !.stock_status =
                               match_stock(self.site, stock_element.v.inner_html)],
              result |-> Ok(<<>>)]

\* Variant: the name is never assigned.
select_and_store_nameless(self, document, name_sel, stock_sel) ==
    LET name_element == get_single_element(document, name_sel)
    IN  IF ~name_element.ok
        THEN [self |-> self, result |-> Err(name_element.e)]
        ELSE
    LET stock_element == get_single_element(document, stock_sel)
    IN  IF ~stock_element.ok
        THEN [self |-> self, result |-> Err(stock_element.e)]
        ELSE [self |-> [self EXCEPT
                           !.stock_status =
                               match_stock(self.site, stock_element.v.inner_html)],
              result |-> Ok(<<>>)]

\* Both elements are selected, each with `?`, and only then are name and
\* stock_status assigned.
select_and_store(self, document, name_sel, stock_sel) ==
    LET name_element == get_single_element(document, name_sel)
    IN  IF ~name_element.ok
        THEN [self |-> self, result |-> Err(name_element.e)]
        ELSE
    LET stock_element == get_single_element(document, stock_sel)
    IN  IF ~stock_element.ok
        THEN [self |-> self, result |-> Err(stock_element.e)]
        ELSE [self |-> [self EXCEPT
                           !.name = Some(name_element.v.inner_html),
                           !.stock_status =
                               match_stock(self.site, stock_element.v.inner_html)],
              result |-> Ok(<<>>)]

\* update(&mut self) of either type on the transport outcome resp: the
\* monitor afterwards and the Result returned.  Every `?` is an early return.
update(self, resp) ==
    LET s0 == reset(self)
        got == reqwest_get(resp)
    IN  IF ~got.ok THEN [self |-> s0, result |-> Err(got.e)] ELSE
    LET response == response_text(got.v)
    IN  IF ~response.ok THEN [self |-> s0, result |-> Err(response.e)] ELSE
    LET document == parse_document(response.v)
        name_sel == Selector_parse(name_selector(self.site))
    IN  IF ~name_sel.ok THEN [self |-> s0, result |-> Err(name_sel.e)] ELSE
    LET stock_sel == Selector_parse(stock_selector(self.site))
    IN  IF ~stock_sel.ok THEN [self |-> s0, result |-> Err(stock_sel.e)] ELSE
        select_and_store(s0, document, name_sel.v, stock_sel.v)

is_in_stock(self) == self.stock_status = "InStock"

\* Variant: the name is ignored.
get_status_by_url(self) ==
    "Status for product with url " \o self.url \o " is "
        \o to_string(self.stock_status)

get_status(self) ==
    IF self.name.some
    THEN "Status for " \o self.name.v \o " is " \o to_string(self.stock_status)
    ELSE "Status for product with url " \o self.url \o " is "
             \o to_string(self.stock_status)

----------------------------------------------------------------------------
(* The environment: what a fetch of a product page can give *)

ProductUrls ==
    <<"https://strandbergguitars.com/eu/product/boden-standard-nx-6-amber/",
      "https://strandbergguitars.com/eu/product/boden-standard-nx-6-amber-refurb/",
      "https://www.thomann.de/dk/strandberg_boden_standard_nx_6_amber.htm",
      "https://www.thomann.de/dk/strandberg_boden_standard_nx_6_charcoal.htm">>

ProductSites ==
    <<"StrandbergGuitarsCom", "StrandbergGuitarsCom", "ThomannDe", "ThomannDe">>

\* the products main pushes, in order
MainProducts == [k \in 1..Len(ProductUrls) |-> new(ProductSites[k], ProductUrls[k])]

\* the monitors of the call harness: one of each type
HarnessProducts == <<MainProducts[1], MainProducts[3]>>

Names == <<"Boden Standard NX 6", "Boden Standard NX 6 Refurb">>

to_uppercase_char(c) ==
    IF \E k \in 1..Len(LowerLetters) : LowerLetters[k] = c
    THEN UpperLetters[CHOOSE k \in 1..Len(LowerLetters) : LowerLetters[k] = c]
    ELSE c

AsWritten(s) == s
Capitalized(s) == [k \in 1..Len(s) |-> IF k = 1 THEN to_uppercase_char(s[k]) ELSE s[k]]
Shouted(s) == [k \in 1..Len(s) |-> to_uppercase_char(s[k])]

Casings == {"lower", "Capitalized", "UPPER"}
Cased(c, s) ==
    CASE c = "lower" -> AsWritten(s)
      [] c = "Capitalized" -> Capitalized(s)
      [] c = "UPPER" -> Shouted(s)

\* white space before and after the phrase
Pads ==
    {<<<<>>, <<>>>>, <<<<" ">>, <<"\n">>>>, <<<<>>, <<" ", " ">>>>,
     <<<<"\n", "\t", " ">>, <<>>>>}

\* "something unexpected"
P_something_unexpected ==
    <<"s","o","m","e","t","h","i","n","g"," ","u","n","e","x","p","e","c","t","e","d">>
\* "only 3 in stock"
P_only_3_in_stock ==
    <<"o","n","l","y"," ","3"," ","i","n"," ","s","t","o","c","k">>
\* "på lager indenfor 2-3 uger"
P_paa_lager_2_3_uger ==
    <<"p","å"," ","l","a","g","e","r"," ","i","n","d","e","n","f","o","r",
      " ","2","-","3"," ","u","g","e","r">>
\* "in  stock", two spaces
P_in__stock ==
    <<"i","n"," "," ","s","t","o","c","k">>
\* "sold out"
P_sold_out ==
    <<"s","o","l","d"," ","o","u","t">>

StrandbergPhrases ==
    {P_out_of_stock, P_in_stock, P_only_1_in_stock, P_only_2_in_stock}
ThomannPhrases ==
    {P_ikke_paa_lager, P_paa_lager_3_4_uger, P_paa_lager_1_2_uger, P_paa_lager}
OtherPhrases ==
    {P_something_unexpected, P_only_3_in_stock, P_paa_lager_2_3_uger, P_in__stock,
     P_sold_out, <<>>}
Phrases == StrandbergPhrases \cup ThomannPhrases \cup OtherPhrases

Padded(pad, s) == pad[1] \o s \o pad[2]

\* every phrase in every casing within every pad
RawTexts == {Padded(pad, Cased(c, p)) : pad \in Pads, c \in Casings, p \in Phrases}

\* the availability texts of the call harness and of main
FewTexts ==
    {Capitalized(P_in_stock), <<" ">> \o Capitalized(P_out_of_stock) \o <<"\n">>,
     P_paa_lager, Capitalized(P_ikke_paa_lager), Capitalized(P_something_unexpected)}

Elements(htmls) == [k \in 1..Len(htmls) |-> [id |-> k, inner_html |-> htmls[k]]]

Several(n, h1, h2) == [k \in 1..n |-> IF k % 2 = 1 THEN h1 ELSE h2]

NameMatches ==
    {<<>>} \cup {<<h>> : h \in {Names[k] : k \in 1..Len(Names)}}
           \cup {Several(n, Names[1], Names[2]) : n \in 2..MaxMatches}

StockMatches(texts) ==
    {<<>>} \cup {<<h>> : h \in texts}
           \cup {Several(n, P_in_stock, P_paa_lager) : n \in 2..MaxMatches}

\* the page of a site: what its two selectors match
Page(site, names, stocks) ==
    (name_selector(site) :> Elements(names)) @@ (stock_selector(site) :> Elements(stocks))

NoPage == <<>>

StatusCodes == {200, 404}

Responses(site, texts) ==
    {[kind |-> "ConnectError", status |-> 0, body |-> NoPage],
     [kind |-> "BodyError", status |-> 200, body |-> NoPage]}
    \cup {[kind |-> "Response", status |-> st, body |-> Page(site, ns, ss)] :
             st \in StatusCodes, ns \in NameMatches, ss \in StockMatches(texts)}

----------------------------------------------------------------------------
(* The call harness: any sequence of trait calls on the monitors *)

Init ==
    /\ products = HarnessProducts
    /\ last = [op |-> "new"]
    /\ output = <<>>
    /\ calls = <<>>
    /\ next = 0

UpdateCall(i, resp) ==
    LET r == update(products[i], resp)
    IN  /\ products' = [products EXCEPT ![i] = r.self]
        /\ last' = [op |-> "update", idx |-> i, resp |-> resp,
                    before |-> products[i], result |-> r.result]
        /\ UNCHANGED <<output, calls, next>>

IsInStockCall(i) ==
    /\ last' = [op |-> "is_in_stock", idx |-> i, ret |-> is_in_stock(products[i])]
    /\ UNCHANGED <<products, output, calls, next>>

GetStatusCall(i) ==
    /\ last' = [op |-> "get_status", idx |-> i, ret |-> get_status(products[i])]
    /\ UNCHANGED <<products, output, calls, next>>

HarnessResponses == [site \in Sites |-> Responses(site, FewTexts)]

Next ==
    \/ \E i \in 1..Len(products) :
          \E resp \in HarnessResponses[products[i].site] : UpdateCall(i, resp)
    \/ \E i \in 1..Len(products) : IsInStockCall(i)
    \/ \E i \in 1..Len(products) : GetStatusCall(i)

Spec == Init /\ [][Next]_vars

----------------------------------------------------------------------------
(* main: products.iter_mut().for_each(...) *)

\* the availability texts served while main runs
MainTexts == {Capitalized(P_in_stock), P_paa_lager}

MainResponses == [site \in Sites |-> Responses(site, MainTexts)]

\* println!("Error occurred while updating, {:?}", error)
error_line(error) == <<"Error occurred while updating, ", error>>

\* println!("{}", product.get_status())
status_line(product) == <<get_status(product)>>

\* Variant: the first failed update ends the iteration.
for_each_closure_abort(ps, out, cs, i, resp) ==
    LET r == update(ps[i], resp)
    IN  IF ~r.result.ok
        THEN [products |-> [ps EXCEPT ![i] = r.self],
              output |-> Append(out, error_line(r.result.e)),
              calls |-> Append(cs, [op |-> "update", idx |-> i, ok |-> FALSE]),
              next |-> Len(ps) + 1]
        ELSE [products |-> [ps EXCEPT ![i] = r.self],
              output |-> Append(out, status_line(r.self)),
              calls |-> cs \o <<[op |-> "update", idx |-> i, ok |-> TRUE],
                                [op |-> "get_status", idx |-> i]>>,
              next |-> i + 1]

\* Variant: the error is not printed.
for_each_closure_quiet(ps, out, cs, i, resp) ==
    LET r == update(ps[i], resp)
    IN  [products |-> [ps EXCEPT ![i] = r.self],
         output |-> Append(out, status_line(r.self)),
         calls |-> cs \o <<[op |-> "update", idx |-> i, ok |-> r.result.ok],
                           [op |-> "get_status", idx |-> i]>>,
         next |-> i + 1]

\* The closure of for_each on the product at position i, with resp the
\* outcome of its fetch: the products, the lines printed, the calls made and
\* the iterator afterwards.
for_each_closure(ps, out, cs, i, resp) ==
    LET r == update(ps[i], resp)
        printed == IF ~r.result.ok THEN Append(out, error_line(r.result.e)) ELSE out
    IN  [products |-> [ps EXCEPT ![i] = r.self],
         output |-> Append(printed, status_line(r.self)),
         calls |-> cs \o <<[op |-> "update", idx |-> i, ok |-> r.result.ok],
                           [op |-> "get_status", idx |-> i]>>,
         next |-> i + 1]

InitMain ==
    /\ products = MainProducts
    /\ last = [op |-> "new"]
    /\ output = <<>>
    /\ calls = <<>>
    /\ next = 1

MainStep ==
    /\ next \in 1..Len(products)
    /\ \E resp \in MainResponses[products[next].site] :
          LET after == for_each_closure(products, output, calls, next, resp)
          IN  /\ products' = after.products
              /\ output' = after.output
              /\ calls' = after.calls
              /\ next' = after.next
    /\ UNCHANGED last

MainDone == next = Len(products) + 1

SpecMain == InitMain /\ [][MainStep]_vars

\* every fetch returns (reqwest's blocking client times out), so each step
\* of the iteration is eventually taken
FairSpecMain == SpecMain /\ WF_vars(MainStep)

----------------------------------------------------------------------------
(* Classification: one monitor of either type, refreshed from pages that    *)
(* show one name and one availability text, the text drawn from RawTexts   *)

Served(site, text) ==
    [kind |-> "Response", status |-> 200, body |-> Page(site, <<Names[1]>>, <<text>>)]

InitClassify ==
    /\ \E k \in {1, 3} : products = <<MainProducts[k]>>
    /\ last = [op |-> "new"]
    /\ output = <<>>
    /\ calls = <<>>
    /\ next = 0

ClassifyStep == \E text \in RawTexts : UpdateCall(1, Served(products[1].site, text))

SpecClassify == InitClassify /\ [][ClassifyStep]_vars

----------------------------------------------------------------------------
(* Properties *)

\* the last call was an update
Updated == last.op = "update"

\* the last call was an update whose fetch gave a page
UpdatedFromPage == Updated /\ last.resp.kind = "Response"

\* the monitor the last call was made on
Target == products[last.idx]

\* the elements matching the name and the availability selector on the
\* page of the last update
NameFound == last.resp.body[name_selector(Target.site)]
StockFound == last.resp.body[stock_selector(Target.site)]

\* C1: an update that fails, at whatever step and whatever the status was
\* before, leaves the status Unknown, and is_in_stock() is then false.
C1_FailedUpdateLeavesUnknown ==
    (Updated /\ ~last.result.ok) =>
        /\ Target.stock_status = "Unknown"
        /\ ~is_in_stock(Target)

\* a monitor that was in stock is updated and the selection fails
C1_Witness ==
    /\ UpdatedFromPage
    /\ ~last.result.ok
    /\ last.before.stock_status = "InStock"
    /\ Target.stock_status = "Unknown"

\* the status each phrase of a type's table stands for
C2_Table(site) ==
    IF site = "StrandbergGuitarsCom"
    THEN [p \in StrandbergPhrases |->
             IF p = P_out_of_stock THEN "OutOfStock" ELSE "InStock"]
    ELSE [p \in ThomannPhrases |->
             IF p = P_paa_lager THEN "InStock" ELSE "OutOfStock"]

\* a phrase in every casing within every pad
C2_Variants(p) == {Padded(pad, Cased(c, p)) : pad \in Pads, c \in Casings}

\* the status of a text: that of the phrase it is a variant of, else Unknown
C2_Expected ==
    [site \in Sites |-> [text \in RawTexts |->
        IF \E p \in DOMAIN C2_Table(site) : text \in C2_Variants(p)
        THEN C2_Table(site)[CHOOSE p \in DOMAIN C2_Table(site) : text \in C2_Variants(p)]
        ELSE "Unknown"]]

\* C2: the status a successful update stores is decided by the availability
\* text with the surrounding white space removed and the case folded: the
\* phrases of the type's table give their status, every other text Unknown,
\* whatever the monitor held before.
C2_StatusFromText ==
    Updated =>
        /\ last.result.ok
        /\ Target.stock_status = C2_Expected[Target.site][StockFound[1].inner_html]

\* "  På lager indenfor 3-4 uger" in white space is read as out of stock by a
\* monitor that was in stock
C2_Witness ==
    /\ Updated
    /\ last.before.stock_status = "InStock"
    /\ StockFound[1].inner_html =
           <<"\n", "\t", " ">> \o Capitalized(P_paa_lager_3_4_uger)
    /\ Target.stock_status = "OutOfStock"

\* the message of the error for n matches of selector
C3_Message(n, selector) == <<"Found ", n, " selection(s) for ", selector>>

\* C3: get_single_element gives the element when the selector matches
\* exactly one, and otherwise (no match, or two or more) an error that tells
\* the number of matches and the selector; update fails with that error.

C3_ExactlyOne ==
    UpdatedFromPage =>
        /\ \A sel \in {name_selector(Target.site), stock_selector(Target.site)} :
              LET found == last.resp.body[sel]
                  r == get_single_element(last.resp.body, sel)
              IN  /\ r.ok <=> Len(found) = 1
                  /\ r.ok => r.v = found[1]
                  /\ ~r.ok => r.e.message = C3_Message(Len(found), sel)
        /\ last.result.ok <=> (Len(NameFound) = 1 /\ Len(StockFound) = 1)
        /\ Len(NameFound) # 1 =>
              last.result.e.message =
                  C3_Message(Len(NameFound), name_selector(Target.site))
        /\ (Len(NameFound) = 1 /\ Len(StockFound) # 1) =>
              last.result.e.message =
                  C3_Message(Len(StockFound), stock_selector(Target.site))

\* the availability selector matches several elements
C3_Witness ==
    /\ UpdatedFromPage
    /\ Len(NameFound) = 1
    /\ Len(StockFound) >= 2
    /\ ~last.result.ok
    /\ last.result.e.message[2] = Len(StockFound)

\* the calls made so far are update, get_status on each product visited, in
\* order, and the status of the last one is the last line printed
C4_InOrder ==
    /\ next \in 1..(Len(products) + 1)
    /\ Len(calls) = 2 * (next - 1)
    /\ \A k \in 1..(next - 1) :
          /\ calls[2 * k - 1].op = "update" /\ calls[2 * k - 1].idx = k
          /\ calls[2 * k].op = "get_status" /\ calls[2 * k].idx = k
    /\ next > 1 => output[Len(output)] = <<get_status(products[next - 1])>>

\* C4: main calls update once on each product in input order, then
\* get_status on the same product before the next update, whether or not the
\* update failed, and the iteration ends after the last product.
C4_EveryProductVisited == []C4_InOrder /\ <>MainDone

\* the second update failed and the third and fourth were still made
C4_Witness ==
    /\ MainDone
    /\ ~calls[3].ok
    /\ calls[5].op = "update" /\ calls[5].ok
    /\ calls[7].op = "update"

\* C5 as stated: one line of output for every product.
C5_OneLinePerProduct == Len(output) = next - 1

\* the update of the k-th product failed
C5_Failed(k) == ~calls[2 * k - 1].ok

\* the number of failed updates among the first k products
C5_FailedUpTo(k) == Cardinality({j \in 1..k : C5_Failed(j)})

\* C5 as the code has it: every product gives one status line, in input
\* order, and a failed update gives one more line, the error, right before
\* the status line of its product: n products with f failures print n + f
\* lines.
C5_StatusLinePlusErrorLine ==
    /\ Len(output) = (next - 1) + C5_FailedUpTo(next - 1)
    /\ \A k \in 1..(next - 1) :
          LET at == k + C5_FailedUpTo(k)
          IN  /\ output[at] = <<get_status(products[k])>>
              /\ C5_Failed(k) =>
                    /\ Len(output[at - 1]) = 2
                    /\ output[at - 1][1] = "Error occurred while updating, "
              /\ ~C5_Failed(k) => (at = 1 \/ Len(output[at - 1]) = 1)

\* of the four products only the second fails: five lines
C5_Witness ==
    /\ MainDone
    /\ {k \in 1..Len(products) : C5_Failed(k)} = {2}
    /\ Len(output) = 5

\* C6 as stated: when the name selector matches one element and the
\* availability selector does not, the update fails with the name of this
\* page stored.
C6_NameStoredBeforeAvailability ==
    (UpdatedFromPage /\ Len(NameFound) = 1 /\ Len(StockFound) # 1) =>
        /\ ~last.result.ok
        /\ Target.name = Some(NameFound[1].inner_html)
        /\ Target.stock_status = "Unknown"

\* C6 as the code has it: the name is assigned only after both selections
\* succeeded; when the availability selection fails the name is the one from
\* before the update (absent if there was none) and the status is Unknown.
C6_NameKeptWhenAvailabilityFails ==
    (UpdatedFromPage /\ Len(NameFound) = 1 /\ Len(StockFound) # 1) =>
        /\ ~last.result.ok
        /\ Target.name = last.before.name
        /\ Target.stock_status = "Unknown"

\* a monitor without a name sees one name and no availability element
C6_Witness ==
    /\ UpdatedFromPage
    /\ Len(NameFound) = 1
    /\ Len(StockFound) = 0
    /\ ~last.before.name.some
    /\ ~Target.name.some

\* C7: an update whose response has a status code outside 200..299 fails at
\* the fetch: no selector is applied to the body, the name is the one from
\* before and the status is Unknown, whatever the body holds.
C7_Non2xxFailsAtFetch ==
    (UpdatedFromPage /\ last.resp.status \notin 200..299) =>
        /\ ~last.result.ok
        /\ last.result.e.kind = "reqwest::Error"
        /\ Target.name = last.before.name
        /\ Target.stock_status = "Unknown"

\* the words for a status
C8_Label(status) ==
    CASE status = "InStock" -> "in stock"
      [] status = "OutOfStock" -> "out of stock"
      [] status = "Unknown" -> "unknown"

\* the two forms of the line
C8_WithName(p) == "Status for " \o p.name.v \o " is " \o C8_Label(p.stock_status)
C8_WithUrl(p) ==
    "Status for product with url " \o p.url \o " is " \o C8_Label(p.stock_status)

\* C8: get_status gives "Status for {name} is {status}" when there is a
\* name and "Status for product with url {url} is {status}" when there is
\* none, the status in lower case words; a monitor without a name (never
\* updated, or updated only with failures) gives the url form with "unknown".
C8_StatusLine ==
    /\ \A i \in 1..Len(products) :
          LET p == products[i]
          IN  /\ p.name.some =>
                    /\ get_status(p) = C8_WithName(p)
                    /\ get_status(p) # C8_WithUrl(p)
              /\ ~p.name.some =>
                    /\ get_status(p) = C8_WithUrl(p)
                    /\ get_status(p) =
                           "Status for product with url " \o p.url \o " is unknown"
    /\ last.op = "get_status" => last.ret = get_status(Target)

\* one monitor reports its name in stock while the other, which has no
\* name, reports its url
C8_Witness ==
    /\ last.op = "get_status"
    /\ last.ret = "Status for Boden Standard NX 6 is in stock"
    /\ ~products[2].name.some
    /\ get_status(products[2]) =
           "Status for product with url "
               \o "https://www.thomann.de/dk/strandberg_boden_standard_nx_6_amber.htm"
               \o " is unknown"

\* what a step may change of the monitors
C9_Step ==
    /\ Len(products') = Len(products)
    /\ \A i \in 1..Len(products) :
          /\ products'[i].url = products[i].url
          /\ products[i].url = HarnessProducts[i].url
    /\ last'.op = "update" =>
          \A j \in (1..Len(products)) \ {last'.idx} : products'[j] = products[j]
    /\ last'.op \in {"is_in_stock", "get_status"} => products' = products

\* C9: an update, successful or failed, changes nothing but name and
\* stock_status of the monitor it is made on: every url stays the one given
\* at construction and the other monitors stay as they are; is_in_stock and
\* get_status change no monitor at all.
C9_OnlyOwnNameAndStatus == [][C9_Step]_vars

\* a successful update of the first monitor next to a second one that has
\* a name and is in stock
C9_Witness ==
    /\ Updated
    /\ last.idx = 1
    /\ last.result.ok
    /\ Target.name # last.before.name
    /\ products[2].name.some
    /\ products[2].stock_status = "InStock"

\* a status other than Unknown comes with a name
C10_Named == \A i \in 1..Len(products) :
    products[i].stock_status # "Unknown" => products[i].name.some

\* a name that is present stays present in the next state
C10_NameStays == \A i \in 1..Len(products) :
    products[i].name.some => products'[i].name.some

\* C10: in every reachable state a monitor whose status is InStock or
\* OutOfStock has a name (one without a name has status Unknown), and a name
\* once present is never made absent by a later update.
C10_StatusImpliesName == []C10_Named /\ [][C10_NameStays]_vars

\* a named monitor keeps its name through a failed update
C10_Witness ==
    /\ Updated
    /\ ~last.result.ok
    /\ last.before.name.some
    /\ last.before.stock_status = "OutOfStock"
    /\ Target.name = last.before.name

=============================================================================
